---------------------------- MODULE Spec2Model ----------------------------
(***************************************************************************)
(* A model of src/gpa.py, the Streamlit GPA / CGPA calculator.             *)
(*                                                                         *)
(* The script is one straight-line run over the values its widgets return. *)
(* Grade points, quality points and every average are Python floats (IEEE  *)
(* 754 binary64, round to nearest, ties to even); they are modelled bit    *)
(* for bit, because sums of floats depend on their order and a quotient of *)
(* floats need not lie between its operands.                               *)
(***************************************************************************)
EXTENDS Integers, Sequences, FiniteSets, TLC

(***************************************************************************)
(* Natural numbers of any size: little-endian sequences of limbs in        *)
(* 0..Base-1 with no leading zero limb (TLC's own integers are 32 bits     *)
(* wide, a float's significand is 53).                                     *)
(***************************************************************************)
Base == 2^15

LimbBits == 15

RECURSIVE BigNorm(_)
BigNorm(z) ==
    IF z = <<>> THEN <<>>
    ELSE IF z[Len(z)] = 0 THEN BigNorm(SubSeq(z, 1, Len(z) - 1))
    ELSE z

RECURSIVE BigFromInt(_)
BigFromInt(n) ==
    IF n = 0 THEN <<>> ELSE <<n % Base>> \o BigFromInt(n \div Base)

RECURSIVE BigToInt(_)
BigToInt(z) ==
    IF z = <<>> THEN 0 ELSE Head(z) + Base * BigToInt(Tail(z))

RECURSIVE BigMulCarry(_, _, _)
BigMulCarry(z, n, c) ==
    IF z = <<>> THEN BigFromInt(c)
    ELSE LET t == Head(z) * n + c
         IN  <<t % Base>> \o BigMulCarry(Tail(z), n, t \div Base)

\* z * n for 0 <= n < Base
BigMulSmall(z, n) == BigNorm(BigMulCarry(z, n, 0))

\* long division of z by n from limb j down, with the remainder r carried in
\* and the quotient limbs found so far in q
RECURSIVE BigDivFrom(_, _, _, _, _)
BigDivFrom(z, n, j, r, q) ==
    IF j = 0 THEN [q |-> q, r |-> r]
    ELSE BigDivFrom(z, n, j - 1, (r * Base + z[j]) % n,
                    <<(r * Base + z[j]) \div n>> \o q)

\* quotient and remainder of z by n, 0 < n < Base
BigDivSmall(z, n) ==
    LET d == BigDivFrom(z, n, Len(z), 0, <<>>) IN [q |-> BigNorm(d.q), r |-> d.r]

RECURSIVE BigAddCarry(_, _, _)
BigAddCarry(a, b, c) ==
    IF a = <<>> /\ b = <<>> THEN BigFromInt(c)
    ELSE LET x == IF a = <<>> THEN 0 ELSE Head(a)
             y == IF b = <<>> THEN 0 ELSE Head(b)
             t == x + y + c
         IN  <<t % Base>>
             \o BigAddCarry(IF a = <<>> THEN <<>> ELSE Tail(a),
                            IF b = <<>> THEN <<>> ELSE Tail(b),
                            t \div Base)

BigAdd(a, b) == BigNorm(BigAddCarry(a, b, 0))

RECURSIVE BigLessFrom(_, _, _)
BigLessFrom(a, b, i) ==
    IF i = 0 THEN FALSE
    ELSE IF a[i] # b[i] THEN a[i] < b[i]
    ELSE BigLessFrom(a, b, i - 1)

BigLess(a, b) ==
    IF Len(a) # Len(b) THEN Len(a) < Len(b) ELSE BigLessFrom(a, b, Len(a))

RECURSIVE SmallBitLen(_)
SmallBitLen(n) == IF n = 0 THEN 0 ELSE 1 + SmallBitLen(n \div 2)

BigBitLen(z) ==
    IF z = <<>> THEN 0
    ELSE LimbBits * (Len(z) - 1) + SmallBitLen(z[Len(z)])

\* z * 2^s
BigShiftLeft(z, s) ==
    IF z = <<>> THEN <<>>
    ELSE [i \in 1..(s \div LimbBits) |-> 0] \o BigMulSmall(z, 2^(s % LimbBits))

\* q, or q + 1 when the amount r / 2^d dropped below q's unit rounds up: it
\* is more than half, or it is half and either more was dropped before
\* (sticky) or q is odd
BigRoundUp(q, r, d, sticky) ==
    IF \/ r > 2^(d - 1)
       \/ r = 2^(d - 1) /\ (sticky \/ (q # <<>> /\ q[1] % 2 = 1))
    THEN BigAdd(q, <<1>>)
    ELSE q

RECURSIVE BigRoundShift(_, _, _)

\* BigRoundShift after the division c of z by 2^(LimbBits - 1) or by 2^d
BigRoundStep(c, d, sticky) ==
    IF d >= LimbBits
    THEN BigRoundShift(c.q, d - (LimbBits - 1), sticky \/ c.r # 0)
    ELSE BigRoundUp(c.q, c.r, d, sticky)

\* z / 2^d (d >= 1) rounded to the nearest integer, ties to even; sticky says
\* that a nonzero amount below z's unit was already dropped
BigRoundShift(z, d, sticky) ==
    BigRoundStep(BigDivSmall(z, IF d >= LimbBits THEN 2^(LimbBits - 1) ELSE 2^d),
                 d, sticky)

(***************************************************************************)
(* Python floats.  Every float of the program is zero or positive and      *)
(* normal, so a float is [m, e] standing for m * 2^e with m a natural of   *)
(* exactly MantBits bits, and zero is [<<>>, 0]: equal floats are equal    *)
(* records.                                                                *)
(***************************************************************************)
MantBits == 53

FZero == [m |-> <<>>, e |-> 0]

\* the float q * 2^e for q of MantBits bits, or of one bit more after a
\* rounding that carried into the next power of two
FPack(q, e) ==
    IF BigBitLen(q) > MantBits
    THEN [m |-> BigDivSmall(q, 2).q, e |-> e + 1]
    ELSE [m |-> q, e |-> e]

\* FRound for z of len bits
FRoundLen(z, e, sticky, len) ==
    IF len = 0 THEN FZero
    ELSE IF len <= MantBits
    THEN [m |-> BigShiftLeft(z, MantBits - len), e |-> e - (MantBits - len)]
    ELSE FPack(BigRoundShift(z, len - MantBits, sticky), e + (len - MantBits))

\* the float nearest to z * 2^e (plus a nonzero amount below z's unit when
\* sticky, which the callers allow only for z of more than MantBits + 1 bits)
FRound(z, e, sticky) == FRoundLen(z, e, sticky, BigBitLen(z))

\* float(n) for an int n >= 0
FromInt(n) == FRound(BigFromInt(n), 0, FALSE)

\* x + y
FAdd(x, y) ==
    IF x = FZero THEN y
    ELSE IF y = FZero THEN x
    ELSE LET e == IF x.e < y.e THEN x.e ELSE y.e
         IN  FRound(BigAdd(BigShiftLeft(x.m, x.e - e), BigShiftLeft(y.m, y.e - e)),
                    e, FALSE)

\* x * n for an int 0 <= n < Base (Python converts the int, exactly)
FMulInt(x, n) == FRound(BigMulSmall(x.m, n), x.e, FALSE)

\* x / n for an int 0 < n < Base
FDivInt(x, n) ==
    LET c == BigDivSmall(BigShiftLeft(x.m, 2 * LimbBits), n)
    IN  IF x = FZero THEN FZero ELSE FRound(c.q, x.e - 2 * LimbBits, c.r # 0)

\* x < y
FLess(x, y) ==
    IF y = FZero THEN FALSE
    ELSE IF x = FZero THEN TRUE
    ELSE IF x.e # y.e THEN x.e < y.e
    ELSE BigLess(x.m, y.m)

\* x >= y
FGe(x, y) == ~FLess(x, y)

\* x <= y
FLe(x, y) == ~FLess(y, x)

\* the float a decimal literal n/den denotes (the nearest one)
FLit(n, den) == FDivInt(FromInt(n), den)

\* x * 100 rounded to the nearest integer, ties to even: the digits of
\* f"{x:.2f}" and of round(x, 2)
Hundredths(x) ==
    LET w == BigMulSmall(x.m, 100)
    IN  IF x = FZero THEN 0
        ELSE IF x.e >= 0 THEN BigToInt(BigShiftLeft(w, x.e))
        ELSE BigToInt(BigRoundShift(w, 0 - x.e, FALSE))

\* round(x, 2)
Round2(x) == FLit(Hundredths(x), 100)

(***************************************************************************)
(* The grade scale.                                                        *)
(***************************************************************************)
\* Python values a caller can hand to marks_to_gpa
PyInt(n) == [type |-> "int", val |-> n]

PyNone == [type |-> "NoneType", val |-> 0]

PyStr == [type |-> "str", val |-> 0]

\* the outcome of a call that raised instead of returning
TypeError == [raised |-> "TypeError"]

\* the float literals of the grade scale: 4.0, 3.7, ... 0.0
F4_0 == FLit(40, 10)

F3_7 == FLit(37, 10)

F3_3 == FLit(33, 10)

F3_0 == FLit(30, 10)

F2_7 == FLit(27, 10)

F2_3 == FLit(23, 10)

F2_0 == FLit(20, 10)

F1_7 == FLit(17, 10)

F1_0 == FLit(10, 10)

F0_0 == FLit(0, 10)

\* marks_to_gpa as it would be with a step above the scale (4.3 from 95): the
\* range of the grade points has to fail for it
marks_to_gpa_above_scale(marks) ==
    IF marks.type # "int" THEN TypeError
    ELSE IF marks.val >= 95 THEN FLit(43, 10)
    ELSE IF marks.val >= 85 THEN F4_0
    ELSE IF marks.val >= 80 THEN F3_7
    ELSE IF marks.val >= 75 THEN F3_3
    ELSE IF marks.val >= 70 THEN F3_0
    ELSE IF marks.val >= 65 THEN F2_7
    ELSE IF marks.val >= 61 THEN F2_3
    ELSE IF marks.val >= 58 THEN F2_0
    ELSE IF marks.val >= 55 THEN F1_7
    ELSE IF marks.val >= 50 THEN F1_0
    ELSE F0_0

\* marks_to_gpa as it would be with the first threshold exclusive (marks > 85):
\* the inclusive thresholds have to fail for it
marks_to_gpa_exclusive(marks) ==
    IF marks.type # "int" THEN TypeError
    ELSE IF marks.val > 85 THEN F4_0
    ELSE IF marks.val >= 80 THEN F3_7
    ELSE IF marks.val >= 75 THEN F3_3
    ELSE IF marks.val >= 70 THEN F3_0
    ELSE IF marks.val >= 65 THEN F2_7
    ELSE IF marks.val >= 61 THEN F2_3
    ELSE IF marks.val >= 58 THEN F2_0
    ELSE IF marks.val >= 55 THEN F1_7
    ELSE IF marks.val >= 50 THEN F1_0
    ELSE F0_0

\* marks_to_gpa as it would be with 4.0 starting at 90: the scenario's grade
\* points have to fail for it
marks_to_gpa_from_ninety(marks) ==
    IF marks.type # "int" THEN TypeError
    ELSE IF marks.val >= 90 THEN F4_0
    ELSE IF marks.val >= 80 THEN F3_7
    ELSE IF marks.val >= 75 THEN F3_3
    ELSE IF marks.val >= 70 THEN F3_0
    ELSE IF marks.val >= 65 THEN F2_7
    ELSE IF marks.val >= 61 THEN F2_3
    ELSE IF marks.val >= 58 THEN F2_0
    ELSE IF marks.val >= 55 THEN F1_7
    ELSE IF marks.val >= 50 THEN F1_0
    ELSE F0_0

\* def marks_to_gpa(marks): the first comparison, marks >= 85, raises
\* TypeError when marks is None or a str
marks_to_gpa(marks) ==
    IF marks.type # "int" THEN TypeError
    ELSE IF marks.val >= 85 THEN F4_0
    ELSE IF marks.val >= 80 THEN F3_7
    ELSE IF marks.val >= 75 THEN F3_3
    ELSE IF marks.val >= 70 THEN F3_0
    ELSE IF marks.val >= 65 THEN F2_7
    ELSE IF marks.val >= 61 THEN F2_3
    ELSE IF marks.val >= 58 THEN F2_0
    ELSE IF marks.val >= 55 THEN F1_7
    ELSE IF marks.val >= 50 THEN F1_0
    ELSE F0_0

\* gpa_to_letter as it would be with the last threshold exclusive (gpa > 1.0):
\* the letter scale has to fail for it
gpa_to_letter_exclusive(gpa) ==
    IF FGe(gpa, F3_7) THEN "A"
    ELSE IF FGe(gpa, F3_3) THEN "A-"
    ELSE IF FGe(gpa, F3_0) THEN "B+"
    ELSE IF FGe(gpa, F2_7) THEN "B"
    ELSE IF FGe(gpa, F2_3) THEN "B-"
    ELSE IF FGe(gpa, F2_0) THEN "C+"
    ELSE IF FGe(gpa, F1_7) THEN "C"
    ELSE IF FLess(F1_0, gpa) THEN "D"
    ELSE "F"

\* def gpa_to_letter(gpa)
gpa_to_letter(gpa) ==
    IF FGe(gpa, F3_7) THEN "A"
    ELSE IF FGe(gpa, F3_3) THEN "A-"
    ELSE IF FGe(gpa, F3_0) THEN "B+"
    ELSE IF FGe(gpa, F2_7) THEN "B"
    ELSE IF FGe(gpa, F2_3) THEN "B-"
    ELSE IF FGe(gpa, F2_0) THEN "C+"
    ELSE IF FGe(gpa, F1_7) THEN "C"
    ELSE IF FGe(gpa, F1_0) THEN "D"
    ELSE "F"

(***************************************************************************)
(* What the widgets can return.                                            *)
(***************************************************************************)
\* st.number_input("Number of subjects this semester:", min_value=1, max_value=15)
MinSubjects == 1

\* the model's cap on num_subjects (the widget's is 15)
MaxSubjects == 3

\* the model's cap on proj_subjects (the widget's is 15)
MaxProj == 1

\* st.number_input(f"Marks ...", 0, 100, 75)
MinMarks == 0

MaxMarks == 100

\* st.number_input(f"Credit hours", 1, 5, 3)
MinCredits == 1

MaxCredits == 5

\* the value the credit hours widget starts with
DefaultCredits == 3

\* st.number_input("Total Credit Hours Completed Previously", 0, 200, 0, step=1)
MaxPrevCredits == 200

\* the marks and credit hours the model enters for a subject of this semester
MarksInputs == {m \in MinMarks..MaxMarks : m \in {56, 78, 85, 92}}

CreditInputs == {c \in MinCredits..MaxCredits : c \in {1, 3}}

\* the previous CGPA (st.number_input(..., 0.0, 4.0, 0.0, step=0.01), in
\* hundredths) and previous credit hours the model enters
PrevInputs ==
    {p \in {<<250, 0>>, <<300, 0>>, <<300, 30>>} : p[1] \in 0..400 /\ p[2] \in 0..MaxPrevCredits}

\* the marks and credit hours the model enters for a planned subject
ProjMarksInputs == {m \in MinMarks..MaxMarks : m \in {80}}

ProjCreditInputs == {c \in MinCredits..MaxCredits : c \in {3}}

\* the values handed to marks_to_gpa when it is taken alone: every marks the
\* form can supply, and the two kinds of value that are not numbers
MarksArguments == {PyInt(m) : m \in MinMarks..MaxMarks} \cup {PyNone, PyStr}

\* the grade points handed to gpa_to_letter when it is taken alone: 0.0 to
\* 4.0 in steps of 0.05, which holds every value marks_to_gpa returns
GradePointArguments == {FLit(n, 20) : n \in 0..80}

(***************************************************************************)
(* The state: the script's variables, the position of the run (pc), and,   *)
(* for the grade scale taken alone, the last call made to it.               *)
(***************************************************************************)
VARIABLES pc, num_subjects, subjects, total_points, total_credits, i,
          current_gpa, prev_cgpa, prev_credits, new_cgpa,
          proj_subjects, proj_list, proj_total_points, proj_total_credits, k,
          projected_sem_gpa, base_total_credits, base_cgpa,
          projected_overall_cgpa, call

semVars == <<num_subjects, subjects, total_points, total_credits, i, current_gpa>>

cgpaVars == <<prev_cgpa, prev_credits, new_cgpa>>

projVars == <<proj_subjects, proj_list, proj_total_points, proj_total_credits, k,
              projected_sem_gpa, base_total_credits, base_cgpa,
              projected_overall_cgpa>>

callVars == <<call>>

vars == <<pc, semVars, cgpaVars, projVars, callVars>>

NoCall == [fn |-> "none"]

\* a fresh run of the script: nothing read, nothing computed (a variable the
\* run has not assigned yet holds 0 here and is read by no action before its
\* assignment)
Init ==
    /\ pc = "num_subjects"
    /\ num_subjects = 0
    /\ subjects = <<>>
    /\ total_points = FZero
    /\ total_credits = 0
    /\ i = 0
    /\ current_gpa = FZero
    /\ prev_cgpa = FZero
    /\ prev_credits = 0
    /\ new_cgpa = FZero
    /\ proj_subjects = 0
    /\ proj_list = <<>>
    /\ proj_total_points = FZero
    /\ proj_total_credits = 0
    /\ k = 0
    /\ projected_sem_gpa = FZero
    /\ base_total_credits = 0
    /\ base_cgpa = FZero
    /\ projected_overall_cgpa = FZero
    /\ call = NoCall

\* lines 58-62: the number of subjects is read, the accumulators are cleared
ReadNumSubjects ==
    /\ pc = "num_subjects"
    /\ \E n \in MinSubjects..MaxSubjects : num_subjects' = n
    /\ subjects' = <<>>
    /\ total_points' = FZero
    /\ total_credits' = 0
    /\ i' = 0
    /\ pc' = "subjects"
    /\ UNCHANGED <<current_gpa, cgpaVars, projVars, callVars>>

\* the row lines 76-83 append for marks and credits
SubjectRecord(marks, credits) ==
    LET gpa == marks_to_gpa(PyInt(marks))
    IN  [Marks         |-> marks,
         CreditHours   |-> credits,
         GradePoint    |-> Round2(gpa),
         Letter        |-> gpa_to_letter(gpa),
         QualityPoints |-> Round2(FMulInt(gpa, credits))]

\* lines 66-85: one pass of the loop over range(num_subjects)
SubjectRow ==
    /\ pc = "subjects"
    /\ i < num_subjects
    /\ \E marks \in MarksInputs, credits \in CreditInputs :
          LET gpa == marks_to_gpa(PyInt(marks))
          IN  /\ subjects' = Append(subjects, SubjectRecord(marks, credits))
              /\ total_points' = FAdd(total_points, FMulInt(gpa, credits))
              /\ total_credits' = total_credits + credits
    /\ i' = i + 1
    /\ UNCHANGED <<pc, num_subjects, current_gpa, cgpaVars, projVars, callVars>>

\* ComputeGPA as it would be dividing by the number of subjects, not by the
\* credit hours: the semester GPA has to fail for it
ComputeGPA_by_count ==
    /\ pc = "subjects"
    /\ i >= num_subjects
    /\ current_gpa' = IF total_credits > 0
                      THEN FDivInt(total_points, num_subjects)
                      ELSE FZero
    /\ pc' = "cgpa"
    /\ UNCHANGED <<num_subjects, subjects, total_points, total_credits, i,
                   cgpaVars, projVars, callVars>>

\* lines 87-91: the loop is over, the semester GPA is computed
ComputeGPA ==
    /\ pc = "subjects"
    /\ i >= num_subjects
    /\ current_gpa' = IF total_credits > 0
                      THEN FDivInt(total_points, total_credits)
                      ELSE FZero
    /\ pc' = "cgpa"
    /\ UNCHANGED <<num_subjects, subjects, total_points, total_credits, i,
                   cgpaVars, projVars, callVars>>

\* UpdateCGPA as it would be with the semester GPA not weighted by its credit
\* hours: the updated CGPA has to fail for it
UpdateCGPA_unweighted ==
    /\ pc = "cgpa"
    /\ \E p \in PrevInputs :
          /\ prev_cgpa' = FLit(p[1], 100)
          /\ prev_credits' = p[2]
    /\ new_cgpa' = IF prev_credits' > 0
                   THEN FDivInt(FAdd(FMulInt(prev_cgpa', prev_credits'), current_gpa),
                                prev_credits' + total_credits)
                   ELSE current_gpa
    /\ pc' = "proj_count"
    /\ UNCHANGED <<semVars, projVars, callVars>>

\* UpdateCGPA as it would be dividing by the previous credit hours alone: the
\* bounds of the averages have to fail for it
UpdateCGPA_prev_divisor ==
    /\ pc = "cgpa"
    /\ \E p \in PrevInputs :
          /\ prev_cgpa' = FLit(p[1], 100)
          /\ prev_credits' = p[2]
    /\ new_cgpa' = IF prev_credits' > 0
                   THEN FDivInt(FAdd(FMulInt(prev_cgpa', prev_credits'),
                                     FMulInt(current_gpa, total_credits)),
                                prev_credits')
                   ELSE current_gpa
    /\ pc' = "proj_count"
    /\ UNCHANGED <<semVars, projVars, callVars>>

\* lines 102-112: the previous CGPA and credits are read, the CGPA is updated
UpdateCGPA ==
    /\ pc = "cgpa"
    /\ \E p \in PrevInputs :
          /\ prev_cgpa' = FLit(p[1], 100)
          /\ prev_credits' = p[2]
    /\ new_cgpa' = IF prev_credits' > 0
                   THEN FDivInt(FAdd(FMulInt(prev_cgpa', prev_credits'),
                                     FMulInt(current_gpa, total_credits)),
                                prev_credits' + total_credits)
                   ELSE current_gpa
    /\ pc' = "proj_count"
    /\ UNCHANGED <<semVars, projVars, callVars>>

\* lines 145-151 and 211-212: the number of planned subjects is read; with
\* none the projection is skipped
ReadProjCount ==
    /\ pc = "proj_count"
    /\ \E n \in 0..MaxProj : 
          /\ proj_subjects' = n
          /\ pc' = IF n > 0 THEN "planned" ELSE "done"
    /\ proj_list' = <<>>
    /\ proj_total_points' = FZero
    /\ proj_total_credits' = 0
    /\ k' = 0
    /\ UNCHANGED <<semVars, cgpaVars, projected_sem_gpa, base_total_credits,
                   base_cgpa, projected_overall_cgpa, callVars>>

\* the row lines 162-169 append for pmarks and pcredits
PlannedRecord(pmarks, pcredits) ==
    LET pgpa == marks_to_gpa(PyInt(pmarks))
    IN  [ExpectedMarks |-> pmarks,
         CreditHours   |-> pcredits,
         GradePoint    |-> Round2(pgpa),
         Letter        |-> gpa_to_letter(pgpa),
         QualityPoints |-> Round2(FMulInt(pgpa, pcredits))]

\* lines 153-171: one pass of the loop over range(proj_subjects)
PlannedRow ==
    /\ pc = "planned"
    /\ k < proj_subjects
    /\ \E pmarks \in ProjMarksInputs, pcredits \in ProjCreditInputs :
          LET pgpa == marks_to_gpa(PyInt(pmarks))
          IN  /\ proj_list' = Append(proj_list, PlannedRecord(pmarks, pcredits))
              /\ proj_total_points' = FAdd(proj_total_points, FMulInt(pgpa, pcredits))
              /\ proj_total_credits' = proj_total_credits + pcredits
    /\ k' = k + 1
    /\ UNCHANGED <<pc, semVars, cgpaVars, proj_subjects, projected_sem_gpa,
                   base_total_credits, base_cgpa, projected_overall_cgpa, callVars>>

\* lines 173-176: the planned loop is over, the projected GPA is computed
ProjectGPA ==
    /\ pc = "planned"
    /\ k >= proj_subjects
    /\ projected_sem_gpa' = IF proj_total_credits > 0
                            THEN FDivInt(proj_total_points, proj_total_credits)
                            ELSE FZero
    /\ pc' = "proj_cgpa"
    /\ UNCHANGED <<semVars, cgpaVars, proj_subjects, proj_list, proj_total_points,
                   proj_total_credits, k, base_total_credits, base_cgpa,
                   projected_overall_cgpa, callVars>>

\* ProjectCGPA as it would be taking the previous CGPA and credit hours as its
\* base, leaving the current semester out: the projection has to fail for it
ProjectCGPA_from_prev ==
    /\ pc = "proj_cgpa"
    /\ base_total_credits' = prev_credits
    /\ base_cgpa' = prev_cgpa
    /\ projected_overall_cgpa' =
          IF (base_total_credits' + proj_total_credits) > 0
          THEN LET combined_quality ==
                       FAdd(FMulInt(base_cgpa', base_total_credits'),
                            FMulInt(projected_sem_gpa, proj_total_credits))
               IN  FDivInt(combined_quality, base_total_credits' + proj_total_credits)
          ELSE projected_sem_gpa
    /\ pc' = "done"
    /\ UNCHANGED <<semVars, cgpaVars, proj_subjects, proj_list, proj_total_points,
                   proj_total_credits, k, projected_sem_gpa, callVars>>

\* lines 182-191: the projected semester is folded into the updated CGPA
ProjectCGPA ==
    /\ pc = "proj_cgpa"
    /\ base_total_credits' = prev_credits + total_credits
    /\ base_cgpa' = new_cgpa
    /\ projected_overall_cgpa' =
          IF (base_total_credits' + proj_total_credits) > 0
          THEN LET combined_quality ==
                       FAdd(FMulInt(base_cgpa', base_total_credits'),
                            FMulInt(projected_sem_gpa, proj_total_credits))
               IN  FDivInt(combined_quality, base_total_credits' + proj_total_credits)
          ELSE projected_sem_gpa
    /\ pc' = "done"
    /\ UNCHANGED <<semVars, cgpaVars, proj_subjects, proj_list, proj_total_points,
                   proj_total_credits, k, projected_sem_gpa, callVars>>

\* Streamlit runs the script again, from its first line, when a widget changes
Rerun ==
    /\ pc = "done"
    /\ pc' = "num_subjects"
    /\ num_subjects' = 0
    /\ subjects' = <<>>
    /\ total_points' = FZero
    /\ total_credits' = 0
    /\ i' = 0
    /\ current_gpa' = FZero
    /\ prev_cgpa' = FZero
    /\ prev_credits' = 0
    /\ new_cgpa' = FZero
    /\ proj_subjects' = 0
    /\ proj_list' = <<>>
    /\ proj_total_points' = FZero
    /\ proj_total_credits' = 0
    /\ k' = 0
    /\ projected_sem_gpa' = FZero
    /\ base_total_credits' = 0
    /\ base_cgpa' = FZero
    /\ projected_overall_cgpa' = FZero
    /\ UNCHANGED callVars

Next ==
    \/ ReadNumSubjects
    \/ SubjectRow
    \/ ComputeGPA
    \/ UpdateCGPA
    \/ ReadProjCount
    \/ PlannedRow
    \/ ProjectGPA
    \/ ProjectCGPA
    \/ Rerun

Spec == Init /\ [][Next]_vars

(***************************************************************************)
(* The grade scale taken alone: its functions are called, one call after   *)
(* another, and the last call is kept.                                     *)
(***************************************************************************)
\* marks_to_gpa(marks) is called (lines 13-33)
CallMarksToGpa ==
    /\ \E marks \in MarksArguments :
          call' = [fn |-> "marks_to_gpa", arg |-> marks, out |-> marks_to_gpa(marks)]
    /\ UNCHANGED <<pc, semVars, cgpaVars, projVars>>

\* gpa_to_letter(gpa) is called (lines 36-53)
CallGpaToLetter ==
    /\ \E gpa \in GradePointArguments :
          call' = [fn |-> "gpa_to_letter", arg |-> gpa, out |-> gpa_to_letter(gpa)]
    /\ UNCHANGED <<pc, semVars, cgpaVars, projVars>>

\* lines 75-83: the table row of one subject is built from the marks the form
\* supplies
GradeRow ==
    /\ \E marks \in MinMarks..MaxMarks :
          call' = [fn |-> "row", arg |-> PyInt(marks),
                   out |-> SubjectRecord(marks, DefaultCredits)]
    /\ UNCHANGED <<pc, semVars, cgpaVars, projVars>>

MapperNext ==
    \/ CallMarksToGpa
    \/ CallGpaToLetter
    \/ GradeRow

SpecMapper == Init /\ [][MapperNext]_vars

(***************************************************************************)
(* What the properties below are stated with.                              *)
(***************************************************************************)
\* the positions of a run at which current_gpa has been computed
AfterGPA == {"cgpa", "proj_count", "planned", "proj_cgpa", "done"}

\* the grade point of a table row, from its marks
RowGradePoint(row) == marks_to_gpa(PyInt(row.Marks))

\* the quality points of the first n rows, added up in the rows' order
RECURSIVE SumPoints(_, _)
SumPoints(rows, n) ==
    IF n = 0 THEN FZero
    ELSE FAdd(SumPoints(rows, n - 1), FMulInt(RowGradePoint(rows[n]), rows[n].CreditHours))

\* the credit hours of the first n rows
RECURSIVE SumCredits(_, _)
SumCredits(rows, n) ==
    IF n = 0 THEN 0 ELSE SumCredits(rows, n - 1) + rows[n].CreditHours

\* sum of quality points / sum of credit hours, and 0 for no credit hours
WeightedGPA(rows) ==
    IF SumCredits(rows, Len(rows)) > 0
    THEN FDivInt(SumPoints(rows, Len(rows)), SumCredits(rows, Len(rows)))
    ELSE FZero

\* (a * wa + b * wb) / (wa + wb)
WeightedAverage(a, wa, b, wb) == FDivInt(FAdd(FMulInt(a, wa), FMulInt(b, wb)), wa + wb)

FMin(x, y) == IF FLess(y, x) THEN y ELSE x

FMax(x, y) == IF FLess(x, y) THEN y ELSE x

\* lo <= x <= hi
FBetween(lo, x, hi) == FLe(lo, x) /\ FLe(x, hi)

\* the smallest and the largest grade point of the rows
RECURSIVE MinGradePoint(_, _)
MinGradePoint(rows, n) ==
    IF n = 1 THEN RowGradePoint(rows[1])
    ELSE FMin(MinGradePoint(rows, n - 1), RowGradePoint(rows[n]))

RECURSIVE MaxGradePoint(_, _)
MaxGradePoint(rows, n) ==
    IF n = 1 THEN RowGradePoint(rows[1])
    ELSE FMax(MaxGradePoint(rows, n - 1), RowGradePoint(rows[n]))

\* 2^-30, about 1e-9: far above any rounding error of a run, far below 0.01
Tolerance == FRound(<<1>>, 0 - 2 * LimbBits, FALSE)

\* lo <= x <= hi up to Tolerance
FNearlyBetween(lo, x, hi) == FLe(lo, FAdd(x, Tolerance)) /\ FLe(x, FAdd(hi, Tolerance))

\* the marks at which the scale of marks_to_gpa steps up
Thresholds == {50, 55, 58, 61, 65, 70, 75, 80, 85}

\* the letter scale: each letter with the grade point it starts at, highest first
LetterScale ==
    << <<F3_7, "A">>, <<F3_3, "A-">>, <<F3_0, "B+">>, <<F2_7, "B">>,
       <<F2_3, "B-">>, <<F2_0, "C+">>, <<F1_7, "C">>, <<F1_0, "D">> >>

\* the steps of the letter scale that grade point g reaches
Reached(g) == {n \in DOMAIN LetterScale : FGe(g, LetterScale[n][1])}

\* the letter of the highest step g reaches, F when it reaches none
LetterOf(g) ==
    IF Reached(g) = {} THEN "F"
    ELSE LetterScale[CHOOSE n \in Reached(g) : \A o \in Reached(g) : n <= o][2]

\* the rows of the scenario: marks 92, 85 and 78, three credit hours each
Scenario ==
    /\ pc \in AfterGPA
    /\ Len(subjects) = 3
    /\ <<subjects[1].Marks, subjects[2].Marks, subjects[3].Marks>> = <<92, 85, 78>>
    /\ \A n \in 1..3 : subjects[n].CreditHours = 3

\* the plain mean of the three grade points of the scenario's table
ScenarioMean ==
    FDivInt(FAdd(FAdd(subjects[1].GradePoint, subjects[2].GradePoint),
                 subjects[3].GradePoint), 3)

(***************************************************************************)
(* C1.  When computed, the semester GPA is the sum over the table's rows   *)
(* of marks_to_gpa(marks) * credit hours divided by the sum of the rows'   *)
(* credit hours when that sum is above 0, and 0 when it is 0; the total    *)
(* credits are the sum of the rows' credit hours.                          *)
(***************************************************************************)
C1_SemesterGPA ==
    pc = "cgpa" =>
        /\ total_credits = SumCredits(subjects, Len(subjects))
        /\ total_points = SumPoints(subjects, Len(subjects))
        /\ current_gpa = WeightedGPA(subjects)
        /\ total_credits = 0 => current_gpa = FZero

C1_Witness ==
    /\ pc = "cgpa"
    /\ Len(subjects) >= 2
    /\ subjects[1].CreditHours # subjects[2].CreditHours
    /\ subjects[1].GradePoint # subjects[2].GradePoint
    /\ total_credits > 0

(***************************************************************************)
(* C2.  When computed, the updated CGPA is (prev_cgpa * prev_credits +     *)
(* current_gpa * total_credits) / (prev_credits + total_credits) when      *)
(* prev_credits + total_credits > 0 and current_gpa otherwise; and with    *)
(* prev_credits = 0 it is current_gpa, whatever prev_cgpa is.              *)
(***************************************************************************)
C2_UpdatedCGPA ==
    pc = "proj_count" =>
        /\ new_cgpa = IF prev_credits + total_credits > 0
                      THEN WeightedAverage(prev_cgpa, prev_credits,
                                           current_gpa, total_credits)
                      ELSE current_gpa
        /\ prev_credits = 0 => new_cgpa = current_gpa

\* the prior state (3.0, 30) and the semester (4.0, 3): 3.0909..., shown 3.09
C2_Witness ==
    /\ pc = "proj_count"
    /\ prev_cgpa = F3_0
    /\ prev_credits = 30
    /\ current_gpa = F4_0
    /\ total_credits = 3
    /\ Hundredths(new_cgpa) = 309

(***************************************************************************)
(* C3.  For every marks value the form can supply (an int in 0..100),      *)
(* 0 <= marks_to_gpa(marks) <= 4.0.                                        *)
(***************************************************************************)
C3_GradePointRange ==
    (call.fn = "marks_to_gpa" /\ call.arg.type = "int") =>
        /\ call.out # TypeError
        /\ FBetween(F0_0, call.out, F4_0)

C3_Witness ==
    /\ call.fn = "marks_to_gpa"
    /\ call.arg = PyInt(MaxMarks)
    /\ call.out = F4_0

(***************************************************************************)
(* C4.  marks_to_gpa is monotonic non-decreasing over the marks the form   *)
(* can supply: of two calls, the one with the larger marks returns no      *)
(* smaller a grade point; and every threshold is inclusive on its lower    *)
(* bound: from marks m to m + 1 the grade point steps up exactly when      *)
(* m + 1 is a threshold.                                                   *)
(***************************************************************************)
C4_Monotonic ==
    [][(/\ call.fn = "marks_to_gpa" /\ call.arg.type = "int"
        /\ call'.fn = "marks_to_gpa" /\ call'.arg.type = "int")
       => /\ call.arg.val <= call'.arg.val => FLe(call.out, call'.out)
          /\ call'.arg.val = call.arg.val + 1
                => (FLess(call.out, call'.out) <=> call'.arg.val \in Thresholds)]_vars

C4_Witness ==
    /\ call.fn = "marks_to_gpa"
    /\ call.arg = PyInt(85)
    /\ call.out = F4_0

(***************************************************************************)
(* C5, as the code has it.  For the rows (92, 3), (85, 3), (78, 3) the     *)
(* grade points of the table are 4.0, 4.0 and 3.3, and the semester GPA    *)
(* and the mean of the three grade points agree to the two decimals shown: *)
(* 3.77.                                                                   *)
(***************************************************************************)
C5_ScenarioAsCoded ==
    Scenario =>
        /\ <<subjects[1].GradePoint, subjects[2].GradePoint, subjects[3].GradePoint>>
              = <<F4_0, F4_0, F3_3>>
        /\ Hundredths(current_gpa) = 377
        /\ Hundredths(current_gpa) = Hundredths(ScenarioMean)

C5_Witness == Scenario /\ pc = "cgpa"

(***************************************************************************)
(* C5, as the claim has it.  For the same rows the grade points are 4.0,   *)
(* 3.7 and 3.0 or 3.3, and the semester GPA is the mean of the three.      *)
(***************************************************************************)
C5_ScenarioAsClaimed ==
    Scenario =>
        /\ subjects[1].GradePoint = F4_0
        /\ subjects[2].GradePoint = F3_7
        /\ subjects[3].GradePoint \in {F3_0, F3_3}
        /\ current_gpa = ScenarioMean

(***************************************************************************)
(* C6.  The projected CGPA is the combination applied twice: new_cgpa      *)
(* folds (current_gpa, total_credits) into (prev_cgpa, prev_credits), and  *)
(* projected_overall_cgpa folds (projected_sem_gpa, proj_total_credits)    *)
(* into (new_cgpa, prev_credits + total_credits) by the same weighted      *)
(* average; and the second step changes none of current_gpa,               *)
(* total_credits, new_cgpa and prev_credits.                               *)
(***************************************************************************)
C6_ProjectionTwice ==
    /\ []((pc = "done" /\ proj_subjects > 0) =>
            /\ new_cgpa = WeightedAverage(prev_cgpa, prev_credits,
                                          current_gpa, total_credits)
            /\ base_cgpa = new_cgpa
            /\ base_total_credits = prev_credits + total_credits
            /\ projected_overall_cgpa =
                  WeightedAverage(new_cgpa, prev_credits + total_credits,
                                  projected_sem_gpa, proj_total_credits))
    /\ [][pc = "proj_cgpa" =>
            UNCHANGED <<current_gpa, total_credits, new_cgpa, prev_credits>>]_vars

C6_Witness ==
    /\ pc = "done"
    /\ proj_subjects > 0
    /\ prev_credits > 0
    /\ projected_overall_cgpa # new_cgpa
    /\ projected_overall_cgpa # projected_sem_gpa

(***************************************************************************)
(* C7.  The total quality points, the total credits and the semester GPA   *)
(* are the same for every reordering of the rows.                          *)
(***************************************************************************)
C7_OrderInvariant ==
    pc = "cgpa" =>
        \A p \in Permutations(1..Len(subjects)) :
            LET rows == [n \in 1..Len(subjects) |-> subjects[p[n]]]
            IN  /\ SumPoints(rows, Len(rows)) = total_points
                /\ SumCredits(rows, Len(rows)) = total_credits
                /\ WeightedGPA(rows) = current_gpa

(***************************************************************************)
(* C8.  gpa_to_letter returns the letter of the highest of the thresholds  *)
(* 3.7, 3.3, 3.0, 2.7, 2.3, 2.0, 1.7, 1.0 the grade point reaches (each    *)
(* inclusive), and F below 1.0; so the letter of a table row is F exactly  *)
(* when marks_to_gpa of the row's marks is below 1.0.                      *)
(***************************************************************************)
C8_LetterScale ==
    /\ call.fn = "gpa_to_letter" => call.out = LetterOf(call.arg)
    /\ call.fn = "row" =>
          (call.out.Letter = "F" <=> FLess(marks_to_gpa(call.arg), F1_0))

C8_Witness ==
    /\ call.fn = "gpa_to_letter"
    /\ call.arg = F1_0
    /\ call.out = "D"

(***************************************************************************)
(* C9.  marks_to_gpa never raises: handed a value that is not a number, or *)
(* None, it returns the lowest grade point, 0.0.                           *)
(***************************************************************************)
C9_NeverRaises ==
    call.fn = "marks_to_gpa" =>
        /\ call.out # TypeError
        /\ call.arg.type # "int" => call.out = F0_0

(***************************************************************************)
(* C10, as the code has it.  Every average stays on the scale, 0 <=        *)
(* current_gpa, new_cgpa, projected_overall_cgpa <= 4.0, and lies between  *)
(* the smallest and the largest of its inputs up to the rounding of float  *)
(* arithmetic (here: within 2^-30).                                        *)
(***************************************************************************)
C10_OnScale ==
    /\ pc = "cgpa" =>
          /\ FBetween(F0_0, current_gpa, F4_0)
          /\ FNearlyBetween(MinGradePoint(subjects, Len(subjects)), current_gpa,
                            MaxGradePoint(subjects, Len(subjects)))
    /\ pc = "proj_count" =>
          /\ FBetween(F0_0, new_cgpa, F4_0)
          /\ FNearlyBetween(FMin(prev_cgpa, current_gpa), new_cgpa,
                            FMax(prev_cgpa, current_gpa))
    /\ (pc = "done" /\ proj_subjects > 0) =>
          /\ FBetween(F0_0, projected_overall_cgpa, F4_0)
          /\ FNearlyBetween(FMin(new_cgpa, projected_sem_gpa), projected_overall_cgpa,
                            FMax(new_cgpa, projected_sem_gpa))

C10_Witness ==
    /\ pc = "done"
    /\ proj_subjects > 0
    /\ prev_credits > 0
    /\ FLess(FMin(prev_cgpa, current_gpa), new_cgpa)
    /\ FLess(new_cgpa, FMax(prev_cgpa, current_gpa))
    /\ FLess(FMin(new_cgpa, projected_sem_gpa), projected_overall_cgpa)
    /\ FLess(projected_overall_cgpa, FMax(new_cgpa, projected_sem_gpa))

(***************************************************************************)
(* C10, as the claim has it.  Every average lies between the smallest and  *)
(* the largest of its inputs, exactly.                                     *)
(***************************************************************************)
C10_Convex ==
    /\ pc = "cgpa" =>
          FBetween(MinGradePoint(subjects, Len(subjects)), current_gpa,
                   MaxGradePoint(subjects, Len(subjects)))
    /\ pc = "proj_count" =>
          FBetween(FMin(prev_cgpa, current_gpa), new_cgpa, FMax(prev_cgpa, current_gpa))
    /\ (pc = "done" /\ proj_subjects > 0) =>
          FBetween(FMin(new_cgpa, projected_sem_gpa), projected_overall_cgpa,
                   FMax(new_cgpa, projected_sem_gpa))
=============================================================================
